---- MODULE Spec2Model ----
(***************************************************************************)
(* TreasuryBot: the shared-custody treasury ledger (contract TreasuryBot)  *)
(* together with the ERC-20 token it holds its funds in, and the rule      *)
(* list of the AI oracle bot that decides which proposals it executes.     *)
(*                                                                         *)
(* Every public function of the contract is one action.  A function body   *)
(* is an operator from the world before the call to a result               *)
(* [w |-> world reached, err |-> "None" or the error that stopped it]; the *)
(* world of a result that stopped on an error is the partial state at the  *)
(* point of the revert.  Commit applies the transaction semantics: the     *)
(* world of a reverted call is discarded.                                  *)
(***************************************************************************)
EXTENDS Integers, Sequences, FiniteSets, TLC

\* ------------------------------------------------------------ identities
Null == 0
Owner == 1
Alice == 2
Bob == 3
Treasury == 4

\* every address that calls the contract: never the null address, never
\* the contract itself
Callers == {Owner, Alice, Bob}
\* token holders
Accounts == {Owner, Alice, Bob, Treasury}

\* The calls the environment makes.  Owner is the administrator and is never
\* made a member; Alice and Bob are the identities that join and leave.
AdminSenders == {Owner, Bob}
Candidates == {Alice, Bob}
OracleIds == {Null, Bob}
DepositSenders == {Alice, Bob}
ProposalSenders == {Alice}
Recipients == {Null, Alice, Treasury}
VoteSenders == {Alice, Bob}
ExecuteSenders == {Owner}
AutoSenders == {Owner, Bob}

\* ---------------------------------------------------------------- bounds
InitialWallet == 1
MaxAmount == 1
MaxProposals == 1
MaxMembersLen == 2

Amounts == 0..MaxAmount

\* the description is a string the contract stores and never reads
LedgerDescriptions == {<<"r", "e", "n", "t">>}

\* block.timestamp of the blocks the transactions are mined in
BlockTimestamps == {1}

VARIABLES
    aiOracle,        \* address public aiOracle
    isMember,        \* mapping(address => bool) public isMember
    members,         \* address[] public members
    memberCount,     \* uint256 public memberCount
    proposals,       \* mapping(uint256 => Proposal), ids 0..proposalCount-1 at index id+1
    proposalCount,   \* uint256 public proposalCount
    deposits,        \* mapping(address => uint256) public deposits
    totalDeposits,   \* uint256 public totalDeposits
    tokenBalance,    \* the token's balanceOf
    transferredIn,   \* cumulative amount of the successful transfers into custody
    transferredOut,  \* cumulative amount of the successful transfers out of custody
    proposalEvents,  \* the event log filtered by the indexed topic proposalId
    receipt,         \* outcome of the last transaction: function, error, logs
    listening,       \* the bot has subscribed to ProposalCreated (AIOracle.start)
    handlers,        \* the listener callbacks, one per notification, and where each is
    aiInput,         \* the arguments and the balance one call of aiDecision reads
    aiResult         \* what that call returned: "true", "false", "pending" before

vars == <<aiOracle, isMember, members, memberCount, proposals, proposalCount,
          deposits, totalDeposits, tokenBalance, transferredIn, transferredOut,
          proposalEvents, receipt, listening, handlers, aiInput, aiResult>>

\* The storage of the contract and of the token, before a transaction runs.
\* logs is the list of events the running transaction has emitted so far.
World ==
    [aiOracle |-> aiOracle, isMember |-> isMember, members |-> members,
     memberCount |-> memberCount, proposals |-> proposals,
     proposalCount |-> proposalCount, deposits |-> deposits,
     totalDeposits |-> totalDeposits, tokenBalance |-> tokenBalance,
     transferredIn |-> transferredIn, transferredOut |-> transferredOut,
     proposalEvents |-> proposalEvents, logs |-> <<>>]

Ok(w) == [w |-> w, err |-> "None"]
Revert(w, e) == [w |-> w, err |-> e]

\* emit of an event without a proposalId topic
Emit(w, ev) == [w EXCEPT !.logs = Append(@, ev)]

\* emit of an event whose indexed topic is proposalId
EmitFor(w, id, ev) ==
    [w EXCEPT !.logs = Append(@, ev),
              !.proposalEvents[id + 1] = Append(@, ev)]

\* ----------------------------------------------------------------- token
\* IERC20.balanceOf(address(this))
balanceOf(w, a) == w.tokenBalance[a]

\* ERC-20 transfer of amt from one holder to another; tokenOk = FALSE is a
\* transfer the token refuses (no allowance, paused token, ...).
tokenTransfer(w, from, to, amt, tokenOk) ==
    IF ~tokenOk \/ w.tokenBalance[from] < amt
    THEN Revert(w, "TransferFailed")
    ELSE LET debited == [w.tokenBalance EXCEPT ![from] = @ - amt]
         IN Ok([w EXCEPT !.tokenBalance = [debited EXCEPT ![to] = @ + amt]])

\* SafeERC20.safeTransferFrom(msg.sender, address(this), amount)
safeTransferFrom(w, from, amt, tokenOk) ==
    LET t == tokenTransfer(w, from, Treasury, amt, tokenOk)
    IN IF t.err # "None" THEN t
       ELSE Ok([t.w EXCEPT !.transferredIn = @ + amt])

\* SafeERC20.safeTransfer(recipient, amount)
safeTransfer(w, to, amt, tokenOk) ==
    LET t == tokenTransfer(w, Treasury, to, amt, tokenOk)
    IN IF t.err # "None" THEN t
       ELSE Ok([t.w EXCEPT !.transferredOut = @ + amt])

\* ------------------------------------------------------ member management
\* addMember that adds whoever it is given
addMemberBodyNoCheck(w, sender, member) ==
    IF sender # Owner THEN Revert(w, "OwnableUnauthorizedAccount")
    ELSE Ok(Emit([w EXCEPT !.isMember[member] = TRUE,
                           !.members = Append(@, member),
                           !.memberCount = @ + 1],
                 [name |-> "MemberAdded", member |-> member]))

addMemberBody(w, sender, member) ==
    IF sender # Owner THEN Revert(w, "OwnableUnauthorizedAccount")
    ELSE IF w.isMember[member] THEN Revert(w, "AlreadyMember")
    ELSE Ok(Emit([w EXCEPT !.isMember[member] = TRUE,
                           !.members = Append(@, member),
                           !.memberCount = @ + 1],
                 [name |-> "MemberAdded", member |-> member]))

\* removeMember that also forgets what the member deposited
removeMemberBodyErasesDeposit(w, sender, member) ==
    IF sender # Owner THEN Revert(w, "OwnableUnauthorizedAccount")
    ELSE IF ~w.isMember[member] THEN Revert(w, "NotMember")
    ELSE Ok(Emit([w EXCEPT !.isMember[member] = FALSE,
                           !.memberCount = @ - 1,
                           !.deposits[member] = 0],
                 [name |-> "MemberRemoved", member |-> member]))

\* removeMember that also withdraws the member from the has-voted sets
removeMemberBodyPurgesVotes(w, sender, member) ==
    IF sender # Owner THEN Revert(w, "OwnableUnauthorizedAccount")
    ELSE IF ~w.isMember[member] THEN Revert(w, "NotMember")
    ELSE Ok(Emit([w EXCEPT !.isMember[member] = FALSE,
                           !.memberCount = @ - 1,
                           !.proposals = [i \in DOMAIN w.proposals |->
                                             [w.proposals[i] EXCEPT
                                                 !.hasVoted = @ \ {member}]]],
                 [name |-> "MemberRemoved", member |-> member]))

removeMemberBody(w, sender, member) ==
    IF sender # Owner THEN Revert(w, "OwnableUnauthorizedAccount")
    ELSE IF ~w.isMember[member] THEN Revert(w, "NotMember")
    ELSE Ok(Emit([w EXCEPT !.isMember[member] = FALSE,
                           !.memberCount = @ - 1],
                 [name |-> "MemberRemoved", member |-> member]))

\* --------------------------------------------------------------- deposits
\* nonReentrant: the token calls nothing back, so no call is ever nested
\* deposit that books the amount and never pulls the tokens
depositBodyNoTransfer(w, sender, amount, tokenOk) ==
    IF ~w.isMember[sender] THEN Revert(w, "NotMember")
    ELSE IF amount = 0 THEN Revert(w, "InvalidAmount")
    ELSE Ok(Emit([w EXCEPT !.deposits[sender] = @ + amount,
                           !.totalDeposits = @ + amount],
                 [name |-> "Deposited", member |-> sender, amount |-> amount]))

\* deposit that books the amount for the member and not in the total
depositBodyNoTotal(w, sender, amount, tokenOk) ==
    IF ~w.isMember[sender] THEN Revert(w, "NotMember")
    ELSE IF amount = 0 THEN Revert(w, "InvalidAmount")
    ELSE LET booked == [w EXCEPT !.deposits[sender] = @ + amount]
             t == safeTransferFrom(booked, sender, amount, tokenOk)
         IN IF t.err # "None" THEN t
            ELSE Ok(Emit(t.w, [name |-> "Deposited", member |-> sender,
                               amount |-> amount]))

depositBody(w, sender, amount, tokenOk) ==
    IF ~w.isMember[sender] THEN Revert(w, "NotMember")
    ELSE IF amount = 0 THEN Revert(w, "InvalidAmount")
    ELSE LET booked == [w EXCEPT !.deposits[sender] = @ + amount,
                                 !.totalDeposits = @ + amount]
             t == safeTransferFrom(booked, sender, amount, tokenOk)
         IN IF t.err # "None" THEN t
            ELSE Ok(Emit(t.w, [name |-> "Deposited", member |-> sender,
                               amount |-> amount]))

getTreasuryBalance == tokenBalance[Treasury]

\* -------------------------------------------------------------- proposals
\* the record createProposal stores; timestamp is block.timestamp
NewProposal(id, sender, recipient, amount, description, timestamp) ==
    [id |-> id, proposer |-> sender, recipient |-> recipient, amount |-> amount,
     description |-> description, createdAt |-> timestamp,
     votesFor |-> 0, votesAgainst |-> 0, hasVoted |-> {}, executed |-> FALSE]

\* createProposal that stores the record and leaves proposalCount as it is
createProposalBodyReusesId(w, sender, recipient, amount, description, timestamp) ==
    IF ~w.isMember[sender] THEN Revert(w, "NotMember")
    ELSE IF recipient = Null THEN Revert(w, "InvalidRecipient")
    ELSE IF amount = 0 THEN Revert(w, "InvalidAmount")
    ELSE LET proposalId == w.proposalCount
             stored == [w EXCEPT !.proposals = Append(@, NewProposal(proposalId, sender,
                                                                     recipient, amount,
                                                                     description,
                                                                     timestamp)),
                                 !.proposalEvents = Append(@, <<>>)]
         IN [w |-> EmitFor(stored, proposalId,
                           [name |-> "ProposalCreated", proposalId |-> proposalId,
                            proposer |-> sender, recipient |-> recipient,
                            amount |-> amount, description |-> description]),
             err |-> "None", ret |-> proposalId]

\* ret is the id the call returns
createProposalBody(w, sender, recipient, amount, description, timestamp) ==
    IF ~w.isMember[sender] THEN Revert(w, "NotMember")
    ELSE IF recipient = Null THEN Revert(w, "InvalidRecipient")
    ELSE IF amount = 0 THEN Revert(w, "InvalidAmount")
    ELSE LET proposalId == w.proposalCount
             stored == [w EXCEPT !.proposalCount = @ + 1,
                                 !.proposals = Append(@, NewProposal(proposalId, sender,
                                                                     recipient, amount,
                                                                     description,
                                                                     timestamp)),
                                 !.proposalEvents = Append(@, <<>>)]
         IN [w |-> EmitFor(stored, proposalId,
                           [name |-> "ProposalCreated", proposalId |-> proposalId,
                            proposer |-> sender, recipient |-> recipient,
                            amount |-> amount, description |-> description]),
             err |-> "None", ret |-> proposalId]

\* the checks of vote, in the order of the code: the error of the first
\* check that fails, "None" when all pass
voteChecksNoAlreadyVoted(w, sender, id) ==
    IF ~w.isMember[sender] THEN "NotMember"
    ELSE IF id >= w.proposalCount THEN "ProposalNotFound"
    ELSE IF w.proposals[id + 1].executed THEN "ProposalAlreadyExecuted"
    ELSE "None"

\* vote open to every caller
voteChecksNoMember(w, sender, id) ==
    IF id >= w.proposalCount THEN "ProposalNotFound"
    ELSE IF w.proposals[id + 1].executed THEN "ProposalAlreadyExecuted"
    ELSE IF sender \in w.proposals[id + 1].hasVoted THEN "AlreadyVoted"
    ELSE "None"

\* vote that is still open on an executed proposal
voteChecksAfterExecution(w, sender, id) ==
    IF ~w.isMember[sender] THEN "NotMember"
    ELSE IF id >= w.proposalCount THEN "ProposalNotFound"
    ELSE IF sender \in w.proposals[id + 1].hasVoted THEN "AlreadyVoted"
    ELSE "None"

voteChecks(w, sender, id) ==
    IF ~w.isMember[sender] THEN "NotMember"
    ELSE IF id >= w.proposalCount THEN "ProposalNotFound"
    ELSE IF w.proposals[id + 1].executed THEN "ProposalAlreadyExecuted"
    ELSE IF sender \in w.proposals[id + 1].hasVoted THEN "AlreadyVoted"
    ELSE "None"

\* vote that counts without recording who voted
voteBodyUnmarked(w, sender, id, support) ==
    IF voteChecks(w, sender, id) # "None" THEN Revert(w, voteChecks(w, sender, id))
    ELSE LET counted == IF support
                        THEN [w EXCEPT !.proposals[id + 1].votesFor = @ + 1]
                        ELSE [w EXCEPT !.proposals[id + 1].votesAgainst = @ + 1]
         IN Ok(EmitFor(counted, id,
                       [name |-> "Voted", proposalId |-> id, voter |-> sender,
                        support |-> support]))

voteBody(w, sender, id, support) ==
    IF voteChecks(w, sender, id) # "None" THEN Revert(w, voteChecks(w, sender, id))
    ELSE LET marked == [w EXCEPT !.proposals[id + 1].hasVoted = @ \cup {sender}]
             counted == IF support
                        THEN [marked EXCEPT !.proposals[id + 1].votesFor = @ + 1]
                        ELSE [marked EXCEPT !.proposals[id + 1].votesAgainst = @ + 1]
         IN Ok(EmitFor(counted, id,
                       [name |-> "Voted", proposalId |-> id, voter |-> sender,
                        support |-> support]))

\* view: reverts on an unknown id, else proposals[_proposalId].hasVoted[_member]
hasVoted(w, id, member) ==
    IF id >= w.proposalCount THEN [err |-> "ProposalNotFound", ret |-> FALSE]
    ELSE [err |-> "None", ret |-> member \in w.proposals[id + 1].hasVoted]

\* view: return members
getAllMembers(w) == w.members

requiredVotesHalf(w) == w.memberCount \div 2

\* uint256 requiredVotes = (memberCount / 2) + 1
requiredVotes(w) == (w.memberCount \div 2) + 1

executeProposalChecksNoExecuted(w, id) ==
    IF id >= w.proposalCount THEN "ProposalNotFound"
    ELSE IF w.proposals[id + 1].votesFor < requiredVotes(w) THEN "ProposalNotApproved"
    ELSE IF balanceOf(w, Treasury) < w.proposals[id + 1].amount
         THEN "InsufficientTreasuryBalance"
    ELSE "None"

\* executeProposal that leaves the balance to the token
executeProposalChecksNoBalance(w, id) ==
    IF id >= w.proposalCount THEN "ProposalNotFound"
    ELSE IF w.proposals[id + 1].executed THEN "ProposalAlreadyExecuted"
    ELSE IF w.proposals[id + 1].votesFor < requiredVotes(w) THEN "ProposalNotApproved"
    ELSE "None"

\* the checks of executeProposal, in the order of the code
executeProposalChecks(w, id) ==
    IF id >= w.proposalCount THEN "ProposalNotFound"
    ELSE IF w.proposals[id + 1].executed THEN "ProposalAlreadyExecuted"
    ELSE IF w.proposals[id + 1].votesFor < requiredVotes(w) THEN "ProposalNotApproved"
    ELSE IF balanceOf(w, Treasury) < w.proposals[id + 1].amount
         THEN "InsufficientTreasuryBalance"
    ELSE "None"

executeProposalBodyPaysProposer(w, sender, id, tokenOk) ==
    IF executeProposalChecks(w, id) # "None" THEN Revert(w, executeProposalChecks(w, id))
    ELSE LET flagged == [w EXCEPT !.proposals[id + 1].executed = TRUE]
             t == safeTransfer(flagged, flagged.proposals[id + 1].proposer,
                               flagged.proposals[id + 1].amount, tokenOk)
         IN IF t.err # "None" THEN t
            ELSE Ok(EmitFor(t.w, id,
                            [name |-> "ProposalExecuted", proposalId |-> id,
                             executor |-> sender, isAI |-> FALSE]))

\* executeProposal that takes the amount off totalDeposits
executeProposalBodyDebitsTotal(w, sender, id, tokenOk) ==
    IF executeProposalChecks(w, id) # "None" THEN Revert(w, executeProposalChecks(w, id))
    ELSE LET flagged == [w EXCEPT !.proposals[id + 1].executed = TRUE,
                                  !.totalDeposits = @ - w.proposals[id + 1].amount]
             t == safeTransfer(flagged, flagged.proposals[id + 1].recipient,
                               flagged.proposals[id + 1].amount, tokenOk)
         IN IF t.err # "None" THEN t
            ELSE Ok(EmitFor(t.w, id,
                            [name |-> "ProposalExecuted", proposalId |-> id,
                             executor |-> sender, isAI |-> FALSE]))

\* executeProposal that clears the amount it has paid
executeProposalBodyClearsAmount(w, sender, id, tokenOk) ==
    IF executeProposalChecks(w, id) # "None" THEN Revert(w, executeProposalChecks(w, id))
    ELSE LET flagged == [w EXCEPT !.proposals[id + 1].executed = TRUE]
             t == safeTransfer(flagged, flagged.proposals[id + 1].recipient,
                               flagged.proposals[id + 1].amount, tokenOk)
         IN IF t.err # "None" THEN t
            ELSE Ok(EmitFor([t.w EXCEPT !.proposals[id + 1].amount = 0], id,
                            [name |-> "ProposalExecuted", proposalId |-> id,
                             executor |-> sender, isAI |-> FALSE]))

executeProposalBody(w, sender, id, tokenOk) ==
    IF executeProposalChecks(w, id) # "None" THEN Revert(w, executeProposalChecks(w, id))
    ELSE LET flagged == [w EXCEPT !.proposals[id + 1].executed = TRUE]
             t == safeTransfer(flagged, flagged.proposals[id + 1].recipient,
                               flagged.proposals[id + 1].amount, tokenOk)
         IN IF t.err # "None" THEN t
            ELSE Ok(EmitFor(t.w, id,
                            [name |-> "ProposalExecuted", proposalId |-> id,
                             executor |-> sender, isAI |-> FALSE]))

autoExecuteChecksNoExecuted(w, sender, id) ==
    IF sender # w.aiOracle THEN "UnauthorizedAIExecution"
    ELSE IF id >= w.proposalCount THEN "ProposalNotFound"
    ELSE IF balanceOf(w, Treasury) < w.proposals[id + 1].amount
         THEN "InsufficientTreasuryBalance"
    ELSE "None"

\* autoExecute open to every caller
autoExecuteChecksAnyCaller(w, sender, id) ==
    IF id >= w.proposalCount THEN "ProposalNotFound"
    ELSE IF w.proposals[id + 1].executed THEN "ProposalAlreadyExecuted"
    ELSE IF balanceOf(w, Treasury) < w.proposals[id + 1].amount
         THEN "InsufficientTreasuryBalance"
    ELSE "None"

\* autoExecute that asks for the majority executeProposal asks for
autoExecuteChecksNeedsMajority(w, sender, id) ==
    IF sender # w.aiOracle THEN "UnauthorizedAIExecution"
    ELSE IF id >= w.proposalCount THEN "ProposalNotFound"
    ELSE IF w.proposals[id + 1].executed THEN "ProposalAlreadyExecuted"
    ELSE IF w.proposals[id + 1].votesFor < requiredVotes(w) THEN "ProposalNotApproved"
    ELSE IF balanceOf(w, Treasury) < w.proposals[id + 1].amount
         THEN "InsufficientTreasuryBalance"
    ELSE "None"

\* the checks of autoExecute, in the order of the code
autoExecuteChecks(w, sender, id) ==
    IF sender # w.aiOracle THEN "UnauthorizedAIExecution"
    ELSE IF id >= w.proposalCount THEN "ProposalNotFound"
    ELSE IF w.proposals[id + 1].executed THEN "ProposalAlreadyExecuted"
    ELSE IF balanceOf(w, Treasury) < w.proposals[id + 1].amount
         THEN "InsufficientTreasuryBalance"
    ELSE "None"

\* autoExecute with a transfer whose failure goes unnoticed
autoExecuteBodyUncheckedTransfer(w, sender, id, tokenOk) ==
    IF autoExecuteChecks(w, sender, id) # "None"
    THEN Revert(w, autoExecuteChecks(w, sender, id))
    ELSE LET flagged == [w EXCEPT !.proposals[id + 1].executed = TRUE]
             t == safeTransfer(flagged, flagged.proposals[id + 1].recipient,
                               flagged.proposals[id + 1].amount, tokenOk)
         IN Ok(EmitFor(IF t.err # "None" THEN flagged ELSE t.w, id,
                       [name |-> "ProposalExecuted", proposalId |-> id,
                        executor |-> sender, isAI |-> TRUE]))

autoExecuteBody(w, sender, id, tokenOk) ==
    IF autoExecuteChecks(w, sender, id) # "None"
    THEN Revert(w, autoExecuteChecks(w, sender, id))
    ELSE LET flagged == [w EXCEPT !.proposals[id + 1].executed = TRUE]
             t == safeTransfer(flagged, flagged.proposals[id + 1].recipient,
                               flagged.proposals[id + 1].amount, tokenOk)
         IN IF t.err # "None" THEN t
            ELSE Ok(EmitFor(t.w, id,
                            [name |-> "ProposalExecuted", proposalId |-> id,
                             executor |-> sender, isAI |-> TRUE]))

\* setAIOracle open to every caller
setAIOracleBodyAnyCaller(w, sender, oracle) ==
    Ok(Emit([w EXCEPT !.aiOracle = oracle],
            [name |-> "AIOrracleUpdated", oldOracle |-> w.aiOracle,
             newOracle |-> oracle]))

setAIOracleBody(w, sender, oracle) ==
    IF sender # Owner THEN Revert(w, "OwnableUnauthorizedAccount")
    ELSE Ok(Emit([w EXCEPT !.aiOracle = oracle],
                 [name |-> "AIOrracleUpdated", oldOracle |-> w.aiOracle,
                  newOracle |-> oracle]))

\* ----------------------------------------------------------- transactions
\* A reverted call leaves the world it started from; a call that returns
\* leaves the world it reached.
\* a transaction whose revert keeps the writes made before it
CommitNoRollback(pre, r) == r.w

Commit(pre, r) == IF r.err = "None" THEN r.w ELSE pre

\* the callback the subscription of the bot queues for a ProposalCreated
\* event: this.contract.on('ProposalCreated', async (proposalId, proposer,
\* recipient, amount, description) => ...); calls counts the autoExecute
\* transactions the callback has sent
Notified(ev) ==
    [pc |-> "onProposalCreated", proposalId |-> ev.proposalId, amount |-> ev.amount,
     description |-> ev.description, calls |-> 0]

\* the ledger's part of a transaction
Apply(op, r) ==
    LET post == Commit(World, r)
    IN /\ aiOracle' = post.aiOracle
       /\ isMember' = post.isMember
       /\ members' = post.members
       /\ memberCount' = post.memberCount
       /\ proposals' = post.proposals
       /\ proposalCount' = post.proposalCount
       /\ deposits' = post.deposits
       /\ totalDeposits' = post.totalDeposits
       /\ tokenBalance' = post.tokenBalance
       /\ transferredIn' = post.transferredIn
       /\ transferredOut' = post.transferredOut
       /\ proposalEvents' = post.proposalEvents
       /\ receipt' = [op |-> op, err |-> r.err, logs |-> post.logs]

\* a transaction sent by a user; the events it emits reach the bot if it listens
Transact(op, r) ==
    LET logs == Commit(World, r).logs
        created == SelectSeq(logs, LAMBDA ev : ev.name = "ProposalCreated")
    IN /\ Apply(op, r)
       /\ handlers' = IF listening
                      THEN handlers \o [i \in 1..Len(created) |-> Notified(created[i])]
                      ELSE handlers
       /\ UNCHANGED <<listening, aiInput, aiResult>>

\* the tokens handed out before the first call: each depositor holds
\* InitialWallet, the treasury and the owner hold none
InitialBalance == [a \in Accounts |-> IF a \in DepositSenders THEN InitialWallet ELSE 0]

\* the state the constructor leaves
Constructed ==
    /\ aiOracle = Null
    /\ isMember = [a \in Callers |-> FALSE]
    /\ members = <<>>
    /\ memberCount = 0
    /\ proposals = <<>>
    /\ proposalCount = 0
    /\ deposits = [a \in Callers |-> 0]
    /\ totalDeposits = 0
    /\ tokenBalance = InitialBalance
    /\ transferredIn = 0
    /\ transferredOut = 0
    /\ proposalEvents = <<>>
    /\ receipt = [op |-> "constructor", err |-> "None", logs |-> <<>>]

\* no call of aiDecision is under way
NoInput == [proposal |-> [amount |-> [mnee |-> 0, rest |-> "000000000000000000"],
                          votesFor |-> 0],
            description |-> <<>>,
            treasuryBalance |-> [mnee |-> 0, rest |-> "000000000000000000"]]

Init ==
    /\ Constructed
    /\ listening = FALSE
    /\ handlers = <<>>
    /\ aiInput = NoInput
    /\ aiResult = "pending"

addMember ==
    \E sender \in AdminSenders, member \in Candidates :
        /\ Len(members) < MaxMembersLen
        /\ Transact("addMember", addMemberBody(World, sender, member))

removeMember ==
    \E sender \in AdminSenders, member \in Candidates :
        Transact("removeMember", removeMemberBody(World, sender, member))

deposit ==
    \E sender \in DepositSenders, amount \in Amounts, tokenOk \in BOOLEAN :
        Transact("deposit", depositBody(World, sender, amount, tokenOk))

createProposal ==
    \E sender \in ProposalSenders, recipient \in Recipients, amount \in Amounts,
       description \in LedgerDescriptions, timestamp \in BlockTimestamps :
        /\ proposalCount < MaxProposals
        /\ Transact("createProposal",
                    createProposalBody(World, sender, recipient, amount, description,
                                       timestamp))

vote ==
    \E sender \in VoteSenders, id \in 0..(MaxProposals - 1), support \in BOOLEAN :
        Transact("vote", voteBody(World, sender, id, support))

executeProposal ==
    \E sender \in ExecuteSenders, id \in 0..(MaxProposals - 1), tokenOk \in BOOLEAN :
        Transact("executeProposal", executeProposalBody(World, sender, id, tokenOk))

autoExecute ==
    \E sender \in AutoSenders, id \in 0..(MaxProposals - 1), tokenOk \in BOOLEAN :
        Transact("autoExecute", autoExecuteBody(World, sender, id, tokenOk))

setAIOracle ==
    \E sender \in AdminSenders, oracle \in OracleIds :
        Transact("setAIOracle", setAIOracleBody(World, sender, oracle))

Next ==
    \/ addMember
    \/ removeMember
    \/ deposit
    \/ createProposal
    \/ vote
    \/ executeProposal
    \/ autoExecute
    \/ setAIOracle

Spec == Init /\ [][Next]_vars

\* ============================================================ oracle rules
\* The bot reads uint256 amounts of base units, 10^18 to the MNEE.  An amount
\* is written as the whole MNEE it holds and the base units left over, the
\* eighteen digits formatEther prints after the point.
Rests == {"000000000000000000", "500000000000000000", "999999999999999999"}

RestRank(rest) ==
    CASE rest = "000000000000000000" -> 0
      [] rest = "500000000000000000" -> 1
      [] rest = "999999999999999999" -> 2

BaseUnits(mnee, rest) == [mnee |-> mnee, rest |-> rest]

\* ethers.formatEther(x): the decimal string of x / 10^18, exact, as its
\* integer part and its fractional digits
formatEther(x) == [int |-> x.mnee, frac |-> x.rest]

\* Number(s): the double nearest to the decimal s.  Every double that
\* arises is a multiple of 0.5 and is held as the number of halves in it.
\* n + 0.999999999999999999 lies within 10^-18 of n + 1, far less than half
\* the gap between neighbouring doubles there, and parses to n + 1.
Number(s) ==
    CASE s.frac = "000000000000000000" -> 2 * s.int
      [] s.frac = "500000000000000000" -> 2 * s.int + 1
      [] s.frac = "999999999999999999" -> 2 * s.int + 2

\* the double of an integer literal of the source
Literal(n) == 2 * n

UpperCase == <<"A", "B", "C", "D", "E", "F", "G", "H", "I", "J", "K", "L", "M", "N", "O", "P", "Q", "R", "S", "T", "U", "V", "W", "X", "Y", "Z">>
LowerCase == <<"a", "b", "c", "d", "e", "f", "g", "h", "i", "j", "k", "l", "m", "n", "o", "p", "q", "r", "s", "t", "u", "v", "w", "x", "y", "z">>

\* String.prototype.toLowerCase; a string is the sequence of its characters
toLowerCase(str) ==
    [i \in 1..Len(str) |->
        IF \E k \in DOMAIN UpperCase : UpperCase[k] = str[i]
        THEN LowerCase[CHOOSE k \in DOMAIN UpperCase : UpperCase[k] = str[i]]
        ELSE str[i]]

\* String.prototype.includes
includes(str, word) ==
    \E i \in 0..(Len(str) - Len(word)) :
        \A j \in 1..Len(word) : str[i + j] = word[j]

emergency == <<"e", "m", "e", "r", "g", "e", "n", "c", "y">>
subscription == <<"s", "u", "b", "s", "c", "r", "i", "p", "t", "i", "o", "n">>
gas == <<"g", "a", "s">>
urgent == <<"u", "r", "g", "e", "n", "t">>

EmergencyLimit == 10
SubscriptionLimit == 50
GasLimit == 5
UrgentLimit == 20
ReserveFloor == 100

\* AIOracle.aiDecision(proposal, description); treasuryBalance is what
\* contract.getTreasuryBalance() returns when rule 4 asks for it
aiDecision(proposal, description, treasuryBalance) ==
    LET amountInMNEE == Number(formatEther(proposal.amount))
        descriptionLower == toLowerCase(description)
        balanceAfter == Number(formatEther(treasuryBalance)) - amountInMNEE
    IN IF includes(descriptionLower, emergency) /\ amountInMNEE < Literal(EmergencyLimit)
       THEN TRUE
       ELSE IF includes(descriptionLower, subscription)
               /\ amountInMNEE < Literal(SubscriptionLimit)
       THEN TRUE
       ELSE IF includes(descriptionLower, gas) /\ amountInMNEE < Literal(GasLimit)
       THEN TRUE
       ELSE IF balanceAfter < Literal(ReserveFloor) THEN FALSE
       ELSE IF includes(descriptionLower, urgent) /\ amountInMNEE < Literal(UrgentLimit)
       THEN TRUE
       ELSE FALSE

\* ---- the inputs of one call of aiDecision
\* whole amounts within Margin of a limit of the rule list
Margin == 1
Limits == {EmergencyLimit, SubscriptionLimit, GasLimit, UrgentLimit}
AmountWholes == UNION {(t - Margin)..(t + Margin) : t \in Limits}
BalanceWholes ==
    {0} \cup UNION {(ReserveFloor + a - Margin)..(ReserveFloor + a + Margin) :
                       a \in AmountWholes}
MaxVotes == 1

Descriptions ==
    {<<"e", "m", "e", "r", "g", "e", "n", "c", "y">>,
     <<"E", "M", "E", "R", "G", "E", "N", "C", "Y">>,
     <<"E", "m", "e", "r", "g", "e", "n", "c", "y", " ", "g", "a", "s">>,
     <<"s", "u", "b", "s", "c", "r", "i", "p", "t", "i", "o", "n">>,
     <<"S", "u", "b", "s", "c", "r", "i", "p", "t", "i", "o", "n", " ", "f", "e", "e">>,
     <<"g", "a", "s">>,
     <<"V", "e", "g", "a", "s">>,
     <<"G", "A", "S">>,
     <<"u", "r", "g", "e", "n", "t">>,
     <<"U", "R", "G", "E", "N", "T">>,
     <<"U", "r", "g", "e", "n", "t", " ", "e", "m", "e", "r", "g", "e", "n", "c", "y">>,
     <<"u", "r", "g", "e", "n">>,
     <<"r", "e", "n", "t">>,
     <<>>}

\* a proposal as getProposal returns it: the amount is positive
\* (createProposal), the votes are anything
AiInputs ==
    [proposal : [amount : [mnee : AmountWholes, rest : Rests], votesFor : 0..MaxVotes],
     description : Descriptions,
     treasuryBalance : [mnee : BalanceWholes, rest : Rests]]

InitDecision ==
    /\ Constructed
    /\ listening = FALSE
    /\ handlers = <<>>
    /\ aiInput \in AiInputs
    /\ aiResult = "pending"

\* const shouldExecute = await this.aiDecision(proposal, description)
decide ==
    /\ aiResult = "pending"
    /\ aiResult' = IF aiDecision(aiInput.proposal, aiInput.description,
                                 aiInput.treasuryBalance)
                    THEN "true" ELSE "false"
    /\ UNCHANGED <<aiOracle, isMember, members, memberCount, proposals, proposalCount,
                   deposits, totalDeposits, tokenBalance, transferredIn,
                   transferredOut, proposalEvents, receipt, listening, handlers,
                   aiInput>>

SpecDecision == InitDecision /\ [][decide]_vars


\* ============================================================= oracle bot
\* the address of the wallet the bot signs with
OracleWallet == Bob

\* The ledger of this model counts whole MNEE: k stands for
\* ethers.parseEther(k) base units.
parseEther(k) == BaseUnits(k, "000000000000000000")

\* what the proposals that reach the running bot are called
EngineDescriptions == {<<"r", "e", "n", "t">>, <<"E", "m", "e", "r", "g", "e", "n", "c", "y">>}
EngineRecipients == {Alice, Treasury}

\* the calls the owner and the members make while the bot runs
userCalls ==
    \/ \E member \in Candidates :
          /\ Len(members) < MaxMembersLen
          /\ Transact("addMember", addMemberBody(World, Owner, member))
    \/ \E oracle \in OracleIds :
          Transact("setAIOracle", setAIOracleBody(World, Owner, oracle))
    \/ \E sender \in DepositSenders, amount \in 1..MaxAmount :
          Transact("deposit", depositBody(World, sender, amount, TRUE))
    \/ \E sender \in ProposalSenders, recipient \in EngineRecipients,
          amount \in 1..MaxAmount, description \in EngineDescriptions,
          timestamp \in BlockTimestamps :
          /\ proposalCount < MaxProposals
          /\ Transact("createProposal",
                      createProposalBody(World, sender, recipient, amount, description,
                                         timestamp))
    \/ \E sender \in VoteSenders, id \in 0..(MaxProposals - 1), support \in BOOLEAN :
          Transact("vote", voteBody(World, sender, id, support))
    \/ \E sender \in ExecuteSenders, id \in 0..(MaxProposals - 1) :
          Transact("executeProposal", executeProposalBody(World, sender, id, TRUE))

\* AIOracle.start: the bot checks that its wallet is the registered oracle
\* and subscribes; otherwise the process exits
AIOracle_start ==
    /\ ~listening
    /\ listening' = (aiOracle = OracleWallet)
    /\ UNCHANGED <<aiOracle, isMember, members, memberCount, proposals, proposalCount,
                   deposits, totalDeposits, tokenBalance, transferredIn,
                   transferredOut, proposalEvents, receipt, handlers, aiInput,
                   aiResult>>

\* a step of a callback that sends no transaction
Step(i, pc) ==
    /\ handlers' = [handlers EXCEPT ![i].pc = pc]
    /\ UNCHANGED <<aiOracle, isMember, members, memberCount, proposals, proposalCount,
                   deposits, totalDeposits, tokenBalance, transferredIn,
                   transferredOut, proposalEvents, receipt, listening, aiInput,
                   aiResult>>

\* analyzeAndExecute of callback i up to the call of aiDecision:
\* getProposal, and the callback ends if the proposal is executed
Analyze(i) ==
    /\ handlers[i].pc = "onProposalCreated"
    /\ LET proposal == proposals[handlers[i].proposalId + 1]
       IN Step(i, IF proposal.executed THEN "skipped" ELSE "aiDecision")

AIOracle_analyzeAndExecute == \E i \in DOMAIN handlers : Analyze(i)

\* a bot that sends autoExecute whatever aiDecision returns
AIOracle_aiDecisionIgnored ==
    \E i \in DOMAIN handlers, tokenOk \in BOOLEAN :
        /\ handlers[i].pc = "aiDecision"
        /\ Apply("autoExecute",
                 autoExecuteBody(World, OracleWallet, handlers[i].proposalId, tokenOk))
        /\ handlers' = [handlers EXCEPT ![i].pc = "deferred", ![i].calls = @ + 1]
        /\ UNCHANGED <<listening, aiInput, aiResult>>

\* the call of aiDecision in callback i and the branch on what it returns;
\* amount is immutable, so the proposal read by getProposal holds the amount
\* read here
Decide(i) ==
    /\ handlers[i].pc = "aiDecision"
    /\ LET proposal == proposals[handlers[i].proposalId + 1]
           shouldExecute ==
               aiDecision([amount |-> parseEther(proposal.amount)],
                          handlers[i].description,
                          parseEther(getTreasuryBalance))
       IN Step(i, IF shouldExecute THEN "executeProposal" ELSE "deferred")

AIOracle_aiDecision == \E i \in DOMAIN handlers : Decide(i)

\* a bot that sends autoExecute again after a failure
ExecuteAndRetry(i, tokenOk) ==
    LET r == autoExecuteBody(World, OracleWallet, handlers[i].proposalId, tokenOk)
    IN /\ handlers[i].pc = "executeProposal"
       /\ Apply("autoExecute", r)
       /\ handlers' = [handlers EXCEPT
                          ![i].pc = IF r.err = "None" THEN "executed"
                                    ELSE "executeProposal",
                          ![i].calls = @ + 1]
       /\ UNCHANGED <<listening, aiInput, aiResult>>

\* AIOracle.executeProposal in callback i: autoExecute is sent and awaited;
\* a failure is logged and nothing is sent again
Execute(i, tokenOk) ==
    LET r == autoExecuteBody(World, OracleWallet, handlers[i].proposalId, tokenOk)
    IN /\ handlers[i].pc = "executeProposal"
       /\ Apply("autoExecute", r)
       /\ handlers' = [handlers EXCEPT
                          ![i].pc = IF r.err = "None" THEN "executed" ELSE "failed",
                          ![i].calls = @ + 1]
       /\ UNCHANGED <<listening, aiInput, aiResult>>

AIOracle_executeProposal ==
    \E i \in DOMAIN handlers, tokenOk \in BOOLEAN : Execute(i, tokenOk)

NextEngine ==
    \/ userCalls
    \/ AIOracle_start
    \/ AIOracle_analyzeAndExecute
    \/ AIOracle_aiDecision
    \/ AIOracle_executeProposal

SpecEngine == Init /\ [][NextEngine]_vars

\* ---- the bot with several proposals in flight
MaxBotProposals == 2

\* one member, who deposits, proposes, votes; the owner sets the oracle and
\* executes
botCalls ==
    \/ /\ Len(members) < 1
       /\ Transact("addMember", addMemberBody(World, Owner, Alice))
    \/ \E oracle \in OracleIds :
          Transact("setAIOracle", setAIOracleBody(World, Owner, oracle))
    \/ /\ transferredIn < InitialWallet
       /\ Transact("deposit", depositBody(World, Alice, InitialWallet, TRUE))
    \/ \E description \in EngineDescriptions, timestamp \in BlockTimestamps :
          /\ proposalCount < MaxBotProposals
          /\ Transact("createProposal",
                      createProposalBody(World, Alice, Alice, MaxAmount, description,
                                         timestamp))
    \/ \E id \in 0..(MaxBotProposals - 1) :
          Transact("vote", voteBody(World, Alice, id, TRUE))
    \/ \E id \in 0..(MaxBotProposals - 1) :
          Transact("executeProposal", executeProposalBody(World, Owner, id, TRUE))

NextBot ==
    \/ botCalls
    \/ AIOracle_start
    \/ AIOracle_analyzeAndExecute
    \/ AIOracle_aiDecision
    \/ AIOracle_executeProposal

SpecBot == Init /\ [][NextBot]_vars

\* ================================================================ claims
ProposalIds == 0..(proposalCount - 1)

\* the world a committed result leaves, as the next transaction finds it
After(r) == [Commit(World, r) EXCEPT !.logs = <<>>]

\* positions of the events called name in the log of proposal id
EventsOf(id, name) ==
    {i \in 1..Len(proposalEvents[id + 1]) : proposalEvents[id + 1][i].name = name}

\* sum of f[x] over the elements x of the finite set S
RECURSIVE SumOver(_, _)
SumOver(f, S) ==
    IF S = {} THEN 0
    ELSE LET x == CHOOSE y \in S : TRUE IN f[x] + SumOver(f, S \ {x})

\* amount of proposal id if it is executed and pays one of the accounts in
\* To, 0 otherwise
PaidAmount(To) ==
    [id \in ProposalIds |->
        IF proposals[id + 1].executed /\ proposals[id + 1].recipient \in To
        THEN proposals[id + 1].amount ELSE 0]

\* sum of the amounts of the executed proposals whose recipient is in To
SumExecuted(To) == SumOver(PaidAmount(To), ProposalIds)

\* floor(memberCount / 2) + 1, written out
MajorityThreshold == (memberCount \div 2) + 1

\* ---------------------------------------------------------------- C1
\* C1: for every proposal id at most one executeProposal / autoExecute call
\* ever succeeds and pays out (the log of the id holds at most one
\* ProposalExecuted, and the amount left custody at most once); whenever an
\* executeProposal and an autoExecute would each succeed alone on the same
\* id, whichever runs first succeeds and the other then fails with
\* ProposalAlreadyExecuted.
C1_ExecutedAtMostOnce ==
    /\ \A id \in ProposalIds :
          /\ Cardinality(EventsOf(id, "ProposalExecuted")) <= 1
          /\ proposals[id + 1].executed <=> EventsOf(id, "ProposalExecuted") # {}
    /\ transferredOut = SumExecuted(Accounts)
    /\ \A id \in ProposalIds, s1 \in ExecuteSenders, s2 \in AutoSenders :
          LET manual == executeProposalBody(World, s1, id, TRUE)
              auto == autoExecuteBody(World, s2, id, TRUE)
          IN (manual.err = "None" /\ auto.err = "None") =>
                /\ autoExecuteBody(After(manual), s2, id, TRUE).err
                      = "ProposalAlreadyExecuted"
                /\ executeProposalBody(After(auto), s1, id, TRUE).err
                      = "ProposalAlreadyExecuted"

\* the oracle lost the race: a manual execution is in the log, and the
\* registered oracle's autoExecute was answered ProposalAlreadyExecuted
C1_Witness ==
    /\ receipt.op = "autoExecute"
    /\ receipt.err = "ProposalAlreadyExecuted"
    /\ aiOracle = Bob
    /\ \E id \in ProposalIds :
          \E i \in EventsOf(id, "ProposalExecuted") : ~proposalEvents[id + 1][i].isAI

\* ---------------------------------------------------------------- C2
\* C2 as stated: in every reachable state, a vote by an identity in the
\* has-voted set of an existing proposal fails with AlreadyVoted, for either
\* value of support.
C2_SecondVoteAlwaysAlreadyVoted ==
    \A id \in ProposalIds, v \in VoteSenders, support \in BOOLEAN :
        v \in proposals[id + 1].hasVoted =>
            voteBody(World, v, id, support).err = "AlreadyVoted"

\* C2 amended: no identity's vote is counted twice on a proposal id (at most
\* one Voted event per identity and id, whatever removeMember / addMember
\* calls came between); a vote by an identity in the has-voted set fails for
\* either value of support and leaves every tally unchanged; the error is
\* AlreadyVoted when the caller is a current member and the proposal is not
\* executed, and otherwise the error of the check that comes first
\* (NotMember, ProposalAlreadyExecuted).
C2_NoDoubleVote ==
    \A id \in ProposalIds, v \in VoteSenders :
        /\ Cardinality({i \in EventsOf(id, "Voted") :
                           proposalEvents[id + 1][i].voter = v}) <= 1
        /\ v \in proposals[id + 1].hasVoted =>
              \A support \in BOOLEAN :
                 LET r == voteBody(World, v, id, support)
                 IN /\ r.err \in {"NotMember", "ProposalAlreadyExecuted", "AlreadyVoted"}
                    /\ (isMember[v] /\ ~proposals[id + 1].executed)
                          => r.err = "AlreadyVoted"
                    /\ After(r).proposals = proposals

\* Alice voted, was removed and added again, and her second vote was refused
C2_Witness ==
    /\ receipt.op = "vote"
    /\ receipt.err = "AlreadyVoted"
    /\ members = <<Alice, Alice>>
    /\ \E id \in ProposalIds : proposals[id + 1].hasVoted = {Alice}

\* ---------------------------------------------------------------- C3
\* C3 as stated: executeProposal succeeds only with votesFor at or above
\* floor(memberCount/2)+1, and whenever votesFor of an existing proposal is
\* exactly one below that threshold the call fails with ProposalNotApproved.
C3_OneBelowAlwaysNotApproved ==
    \A id \in ProposalIds, s \in ExecuteSenders, tokenOk \in BOOLEAN :
        LET r == executeProposalBody(World, s, id, tokenOk)
        IN /\ r.err = "None" => proposals[id + 1].votesFor >= MajorityThreshold
           /\ proposals[id + 1].votesFor = MajorityThreshold - 1
                 => r.err = "ProposalNotApproved"

\* C3 amended: executeProposal succeeds only if, in the state where it runs,
\* votesFor >= floor(memberCount/2)+1; whenever the proposal is not yet
\* executed and votesFor is exactly one below that threshold the call fails
\* with ProposalNotApproved and changes nothing (on a proposal that
\* autoExecute has already executed the error is ProposalAlreadyExecuted).
C3_MajorityRequired ==
    \A id \in ProposalIds, s \in ExecuteSenders, tokenOk \in BOOLEAN :
        LET r == executeProposalBody(World, s, id, tokenOk)
        IN /\ r.err = "None" => proposals[id + 1].votesFor >= MajorityThreshold
           /\ (proposals[id + 1].votesFor = MajorityThreshold - 1) =>
                 /\ r.err = IF proposals[id + 1].executed
                            THEN "ProposalAlreadyExecuted"
                            ELSE "ProposalNotApproved"
                 /\ After(r) = World

\* one vote for out of two members: the manual execution was refused
C3_Witness ==
    /\ receipt.op = "executeProposal"
    /\ receipt.err = "ProposalNotApproved"
    /\ memberCount = 2
    /\ \E id \in ProposalIds :
          proposals[id + 1].votesFor = 1 /\ ~proposals[id + 1].executed

\* ---------------------------------------------------------------- C4
\* C4: executed is one-way.  Once a proposal is executed, no step changes
\* its record (flag, votesFor, votesAgainst, has-voted set) or its log, and
\* in every state every vote, executeProposal and autoExecute on an executed
\* id fails.
C4_ExecutedIsTerminal ==
    /\ [](\A id \in ProposalIds :
            proposals[id + 1].executed =>
               /\ \A s \in VoteSenders, support \in BOOLEAN :
                     voteBody(World, s, id, support).err # "None"
               /\ \A s \in ExecuteSenders, tokenOk \in BOOLEAN :
                     executeProposalBody(World, s, id, tokenOk).err # "None"
               /\ \A s \in AutoSenders, tokenOk \in BOOLEAN :
                     autoExecuteBody(World, s, id, tokenOk).err # "None")
    /\ [][\A id \in ProposalIds :
            proposals[id + 1].executed =>
               /\ id < proposalCount'
               /\ proposals'[id + 1] = proposals[id + 1]
               /\ proposalEvents'[id + 1] = proposalEvents[id + 1]]_vars

\* a member's vote on an executed proposal was refused
C4_Witness ==
    /\ receipt.op = "vote"
    /\ receipt.err = "ProposalAlreadyExecuted"
    /\ \E id \in ProposalIds : proposals[id + 1].executed

\* ---------------------------------------------------------------- C5
CurrentMembers == {a \in Callers : isMember[a]}

Outside == Accounts \ {Treasury}

\* C5 as stated: in every reachable state the custody balance equals the
\* sum of the successful deposits minus the sum of the amounts of all
\* executed proposals.
C5_BalanceIsDepositsMinusExecuted ==
    getTreasuryBalance = transferredIn - SumExecuted(Accounts)

\* C5 amended: the custody balance equals the sum of the successful deposits
\* minus the sum of the amounts of the executed proposals whose recipient is
\* not the treasury itself; every other account holds what it started with,
\* minus what it deposited, plus the amounts of the executed proposals that
\* name it as recipient; no token is created or destroyed.  A successful
\* deposit(amount) raises the custody balance by exactly amount; a
\* successful execution moves exactly the proposal's amount from custody to
\* the proposal's recipient, and leaves the custody balance unchanged when
\* the recipient is the treasury itself.
C5_Conservation ==
    /\ [](/\ getTreasuryBalance = transferredIn - SumExecuted(Outside)
          /\ \A a \in Callers :
                tokenBalance[a] = InitialBalance[a] - deposits[a] + SumExecuted({a})
          /\ SumOver(tokenBalance, Accounts) = SumOver(InitialBalance, Accounts))
    /\ [][/\ (receipt'.op = "deposit" /\ receipt'.err = "None") =>
                tokenBalance'[Treasury] = tokenBalance[Treasury] + receipt'.logs[1].amount
          /\ (receipt'.op \in {"executeProposal", "autoExecute"} /\ receipt'.err = "None") =>
                LET p == proposals[receipt'.logs[1].proposalId + 1]
                IN IF p.recipient = Treasury
                   THEN tokenBalance' = tokenBalance
                   ELSE /\ tokenBalance'[Treasury] = tokenBalance[Treasury] - p.amount
                        /\ tokenBalance'[p.recipient] = tokenBalance[p.recipient] + p.amount
         ]_vars

\* after a deposit, a proposal that pays the treasury itself was executed
C5_Witness ==
    /\ receipt.op \in {"executeProposal", "autoExecute"}
    /\ receipt.err = "None"
    /\ transferredIn > 0
    /\ \E id \in ProposalIds :
          proposals[id + 1].executed /\ proposals[id + 1].recipient = Treasury

\* ---------------------------------------------------------------- C6
\* C6 as stated: in every reachable state the sum of deposits[m] over the
\* current members m equals totalDeposits.
C6_MemberDepositsEqualTotal ==
    SumOver(deposits, CurrentMembers) = totalDeposits

\* C6 amended: in every reachable state the sum of deposits[m] over the
\* current members m equals totalDeposits minus the deposits still recorded
\* for the identities that are not members (removeMember keeps deposits[m]),
\* so it never exceeds totalDeposits and equals it while no depositor has
\* been removed.
C6_MemberDepositsPlusRemoved ==
    /\ SumOver(deposits, CurrentMembers)
          = totalDeposits - SumOver(deposits, Callers \ CurrentMembers)
    /\ SumOver(deposits, CurrentMembers) <= totalDeposits

\* a depositor was removed: its deposit is still part of totalDeposits
C6_Witness ==
    /\ receipt.op = "removeMember"
    /\ receipt.err = "None"
    /\ \E a \in Callers : ~isMember[a] /\ deposits[a] > 0
    /\ SumOver(deposits, CurrentMembers) < totalDeposits

\* ---------------------------------------------------------------- C7
\* C7 as stated: in every reachable state totalDeposits does not exceed the
\* custody balance the token reports for the treasury.
C7_TotalWithinBalance ==
    totalDeposits <= getTreasuryBalance

\* C7 amended: in every reachable state totalDeposits does not exceed the
\* custody balance plus the amounts that executed proposals have paid out of
\* custody (an execution lowers the balance and leaves totalDeposits as it
\* is); while no proposal has paid out, totalDeposits does not exceed the
\* custody balance.
C7_TotalWithinBalancePlusPaid ==
    totalDeposits <= getTreasuryBalance + SumExecuted(Outside)

\* an execution has paid out: totalDeposits is above the custody balance
C7_Witness ==
    /\ receipt.op \in {"executeProposal", "autoExecute"}
    /\ receipt.err = "None"
    /\ totalDeposits > getTreasuryBalance

\* ---------------------------------------------------------------- C8
\* C8: after every sequence of deposit calls, successful or failing,
\* totalDeposits equals the sum of deposits[x] over all identities x and
\* equals the cumulative amount of the transfers into custody that
\* succeeded.
C8_TotalIsSumOfDeposits ==
    /\ totalDeposits = SumOver(deposits, Callers)
    /\ totalDeposits = transferredIn

\* both depositors have deposited, and a further deposit failed in the token
C8_Witness ==
    /\ receipt.op = "deposit"
    /\ receipt.err = "TransferFailed"
    /\ deposits[Alice] > 0
    /\ deposits[Bob] > 0

\* ---------------------------------------------------------------- C9
\* everything but the receipt: contract storage, token balances, event log
Ledger ==
    <<aiOracle, isMember, members, memberCount, proposals, proposalCount,
      deposits, totalDeposits, tokenBalance, transferredIn, transferredOut,
      proposalEvents>>

C11_InsufficientBalance ==
    \A id \in ProposalIds :
        LET p == proposals[id + 1]
        IN (~p.executed /\ p.amount > getTreasuryBalance) =>
              /\ \A s \in ExecuteSenders, tokenOk \in BOOLEAN :
                    p.votesFor >= MajorityThreshold =>
                       LET r == executeProposalBody(World, s, id, tokenOk)
                       IN /\ r.err = "InsufficientTreasuryBalance"
                          /\ After(r) = World
              /\ \A s \in AutoSenders, tokenOk \in BOOLEAN :
                    s = aiOracle =>
                       LET r == autoExecuteBody(World, s, id, tokenOk)
                       IN /\ r.err = "InsufficientTreasuryBalance"
                          /\ After(r) = World
              /\ \A d \in DepositSenders, amount \in Amounts :
                    LET dep == depositBody(World, d, amount, TRUE)
                    IN (dep.err = "None" /\ After(dep).tokenBalance[Treasury] >= p.amount) =>
                          /\ \A s \in ExecuteSenders :
                                p.votesFor >= MajorityThreshold =>
                                   executeProposalBody(After(dep), s, id, TRUE).err = "None"
                          /\ \A s \in AutoSenders :
                                s = aiOracle =>
                                   autoExecuteBody(After(dep), s, id, TRUE).err = "None"

\* an approved proposal was refused for lack of funds and is not executed
C11_Witness ==
    /\ receipt.op = "executeProposal"
    /\ receipt.err = "InsufficientTreasuryBalance"
    /\ \E id \in ProposalIds :
          /\ ~proposals[id + 1].executed
          /\ proposals[id + 1].votesFor >= MajorityThreshold
          /\ proposals[id + 1].amount > getTreasuryBalance

\* --------------------------------------------------------------- C12
\* every id a caller may pass, allocated or not
AnyIds == 0..MaxProposals

\* C12: autoExecute succeeds only for the caller that is the registered
\* oracle at the time of the call; every other caller fails with
\* UnauthorizedAIExecution, whether or not the id exists, and changes
\* nothing; while the oracle is the null identity every call fails; after
\* setAIOracle has put another identity in place, the previous oracle fails.
C12_OnlyTheOracle ==
    /\ \A s \in Callers, id \in AnyIds, tokenOk \in BOOLEAN :
          LET r == autoExecuteBody(World, s, id, tokenOk)
          IN /\ r.err = "None" => s = aiOracle
             /\ s # aiOracle =>
                   (r.err = "UnauthorizedAIExecution" /\ After(r) = World)
             /\ aiOracle = Null => r.err = "UnauthorizedAIExecution"
    /\ \A new \in Callers \cup {Null}, id \in AnyIds, tokenOk \in BOOLEAN :
          LET set == setAIOracleBody(World, Owner, new)
          IN /\ set.err = "None"
             /\ After(set).aiOracle = new
             /\ (aiOracle # Null /\ new # aiOracle) =>
                   autoExecuteBody(After(set), aiOracle, id, tokenOk).err
                      = "UnauthorizedAIExecution"

\* Bob executed as the oracle, the oracle was then set to null, and an
\* autoExecute was refused
C12_Witness ==
    /\ receipt.op = "autoExecute"
    /\ receipt.err = "UnauthorizedAIExecution"
    /\ aiOracle = Null
    /\ \E id \in ProposalIds :
          \E i \in EventsOf(id, "ProposalExecuted") :
             proposalEvents[id + 1][i].isAI /\ proposalEvents[id + 1][i].executor = Bob

\* --------------------------------------------------------------- C13
\* C13: autoExecute called by the registered oracle on an existing,
\* unexecuted proposal whose amount the custody balance covers succeeds,
\* whatever votesFor, votesAgainst and memberCount are (the one failure left
\* is a transfer the token refuses); it marks the proposal executed and
\* emits ProposalExecuted with the oracle as executor and isAI = true.
C13_OracleNeedsNoVotes ==
    \A id \in ProposalIds :
        (/\ aiOracle # Null
         /\ ~proposals[id + 1].executed
         /\ getTreasuryBalance >= proposals[id + 1].amount) =>
            /\ autoExecuteBody(World, aiOracle, id, FALSE).err = "TransferFailed"
            /\ LET r == autoExecuteBody(World, aiOracle, id, TRUE)
               IN /\ r.err = "None"
                  /\ After(r).proposals[id + 1].executed
                  /\ r.w.logs = <<[name |-> "ProposalExecuted", proposalId |-> id,
                                   executor |-> aiOracle, isAI |-> TRUE]>>

\* the oracle executed a proposal with no vote for and a vote against
C13_Witness ==
    /\ receipt.op = "autoExecute"
    /\ receipt.err = "None"
    /\ receipt.logs[1].isAI
    /\ \E id \in ProposalIds :
          /\ proposals[id + 1].executed
          /\ proposals[id + 1].votesFor = 0
          /\ proposals[id + 1].votesAgainst > 0

\* --------------------------------------------------------------- C14
\* a < b for amounts of base units, exactly
Less(a, b) ==
    \/ a.mnee < b.mnee
    \/ a.mnee = b.mnee /\ RestRank(a.rest) < RestRank(b.rest)

\* the amount is below limit MNEE
Below(amount, limit) == Less(amount, BaseUnits(limit, "000000000000000000"))

\* the rule list of the claim, on the exact amounts and with the keywords
\* matched case-insensitively
RuleList(in) ==
    LET d == toLowerCase(in.description)
        amount == in.proposal.amount
        reserveKept == ~Less(in.treasuryBalance,
                             BaseUnits(amount.mnee + ReserveFloor, amount.rest))
    IN \/ includes(d, emergency) /\ Below(amount, EmergencyLimit)
       \/ includes(d, subscription) /\ Below(amount, SubscriptionLimit)
       \/ includes(d, gas) /\ Below(amount, GasLimit)
       \/ reserveKept /\ includes(d, urgent) /\ Below(amount, UrgentLimit)

\* C14: aiDecision is the ordered rule list: it approves iff the description
\* contains 'emergency' and amount < 10, or 'subscription' and amount < 50,
\* or 'gas' and amount < 5, or balance - amount >= 100 and it contains
\* 'urgent' and amount < 20, whatever the case of the letters and whatever
\* the votes; it defers otherwise.
C14_DecisionIsRuleList ==
    aiResult # "pending" => (aiResult = "true" <=> RuleList(aiInput))

\* --------------------------------------------------------------- C15
\* C15: addMember and removeMember change no proposal (tallies and
\* has-voted sets stay), and executeProposal compares votesFor with the
\* member count of the moment it runs: a proposal refused with
\* ProposalNotApproved is executed after a removeMember that brings the
\* threshold down to its votesFor, with no new vote, and a proposal that
\* meets the threshold is refused with ProposalNotApproved after an
\* addMember that lifts the threshold above its votesFor.
C15_ThresholdAtExecutionTime ==
    \A member \in Candidates :
        LET added == addMemberBody(World, Owner, member)
            removed == removeMemberBody(World, Owner, member)
        IN /\ \A sender \in Callers :
                /\ After(addMemberBody(World, sender, member)).proposals = proposals
                /\ After(removeMemberBody(World, sender, member)).proposals = proposals
           /\ \A id \in ProposalIds, sender \in ExecuteSenders :
                LET p == proposals[id + 1]
                    now == executeProposalBody(World, sender, id, TRUE)
                IN /\ (/\ now.err = "ProposalNotApproved"
                       /\ removed.err = "None"
                       /\ p.votesFor >= ((memberCount - 1) \div 2) + 1
                       /\ getTreasuryBalance >= p.amount)
                      => executeProposalBody(After(removed), sender, id, TRUE).err = "None"
                   /\ (/\ now.err = "None"
                       /\ added.err = "None"
                       /\ p.votesFor < ((memberCount + 1) \div 2) + 1)
                      => executeProposalBody(After(added), sender, id, TRUE).err
                            = "ProposalNotApproved"

\* a member was removed and a proposal that was one vote short before is
\* approved now, with a vote of the removed member still counted; adding a
\* member again would leave it short
C15_Witness ==
    /\ receipt.op = "removeMember"
    /\ receipt.err = "None"
    /\ \E id \in ProposalIds :
          /\ executeProposalChecks(World, id) = "None"
          /\ proposals[id + 1].votesFor < ((memberCount + 1) \div 2) + 1
          /\ receipt.logs[1].member \in proposals[id + 1].hasVoted
          /\ \E member \in Candidates :
                LET added == addMemberBody(World, Owner, member)
                IN /\ added.err = "None"
                   /\ executeProposalChecks(After(added), id) = "ProposalNotApproved"

\* --------------------------------------------------------------- C16
\* the callbacks that ended with the decision to leave the proposal to the
\* members
Deferred == {i \in DOMAIN handlers : handlers[i].pc = "deferred"}

\* the example of the claim: three members, 1000 in custody, a proposal of
\* 100 called 'subscription renewal' with two votes for
Example ==
    [aiOracle |-> OracleWallet,
     isMember |-> [a \in Callers |-> TRUE],
     members |-> <<Owner, Alice, Bob>>,
     memberCount |-> 3,
     proposals |-> <<[NewProposal(0, Bob, Owner, 100, <<"s", "u", "b", "s", "c", "r", "i", "p", "t", "i", "o", "n", " ", "r", "e", "n", "e", "w", "a", "l">>, 1)
                         EXCEPT !.votesFor = 2, !.hasVoted = {Alice, Bob}]>>,
     proposalCount |-> 1,
     deposits |-> [a \in Callers |-> IF a = Alice THEN 1000 ELSE 0],
     totalDeposits |-> 1000,
     tokenBalance |-> [a \in Accounts |-> IF a = Treasury THEN 1000 ELSE 0],
     transferredIn |-> 1000,
     transferredOut |-> 0,
     proposalEvents |-> <<<<>>>>,
     logs |-> <<>>]

\* the bot defers the example and executeProposal leaves 900 in custody
ExampleHolds ==
    /\ ~aiDecision([amount |-> parseEther(Example.proposals[1].amount)],
                   Example.proposals[1].description,
                   parseEther(balanceOf(Example, Treasury)))
    /\ requiredVotes(Example) = 2
    /\ LET r == executeProposalBody(Example, Alice, 0, TRUE)
       IN r.err = "None" /\ balanceOf(r.w, Treasury) = 900

\* the deferring step of the bot writes nothing to the ledger
DeferralWritesNothing ==
    (\E i \in DOMAIN handlers :
        handlers[i].pc = "aiDecision" /\ handlers'[i].pc = "deferred")
    => (Ledger' = Ledger /\ receipt' = receipt)

\* the claim as stated: the execution of a deferred proposal always takes
\* its amount off the custody balance
C16_DeferredThenBalanceDrops ==
    \A i \in Deferred :
        LET id == handlers[i].proposalId
            p == proposals[id + 1]
        IN (/\ ~p.executed
            /\ p.votesFor >= MajorityThreshold
            /\ getTreasuryBalance >= p.amount)
           => \A sender \in ExecuteSenders :
                 LET r == executeProposalBody(World, sender, id, TRUE)
                 IN /\ r.err = "None"
                    /\ After(r).tokenBalance[Treasury] = getTreasuryBalance - p.amount

\* C16: a bot that defers a proposal writes nothing to the ledger and sends
\* no autoExecute for it, and the proposal stays open to the members: while
\* it is not executed, as soon as votesFor is at least floor(memberCount/2)+1
\* and the custody balance covers the amount, executeProposal succeeds and
\* the custody balance drops by exactly the amount, unless the recipient is
\* the treasury itself, in which case the balance stays (1000 deposited, 100
\* for 'subscription renewal', 2 of 3 vote for: 900 left).
C16_DeferredStaysExecutable ==
    /\ [](/\ ExampleHolds
          /\ \A i \in Deferred :
                LET id == handlers[i].proposalId
                    p == proposals[id + 1]
                IN /\ \A k \in EventsOf(id, "ProposalExecuted") :
                         ~proposalEvents[id + 1][k].isAI
                   /\ (/\ ~p.executed
                       /\ p.votesFor >= MajorityThreshold
                       /\ getTreasuryBalance >= p.amount)
                      => \A sender \in ExecuteSenders :
                            LET r == executeProposalBody(World, sender, id, TRUE)
                            IN /\ r.err = "None"
                               /\ After(r).proposals[id + 1].executed
                               /\ After(r).tokenBalance[Treasury]
                                     = IF p.recipient = Treasury
                                       THEN getTreasuryBalance
                                       ELSE getTreasuryBalance - p.amount)
    /\ [][DeferralWritesNothing]_vars

\* a proposal the bot deferred was executed by the members and its amount
\* left the custody balance
C16_Witness ==
    /\ receipt.op = "executeProposal"
    /\ receipt.err = "None"
    /\ \E i \in Deferred :
          LET p == proposals[handlers[i].proposalId + 1]
          IN /\ p.executed
             /\ p.recipient # Treasury
             /\ getTreasuryBalance = transferredIn - p.amount

\* --------------------------------------------------------------- C17
\* the claim as stated: a vote on an id that is not allocated fails with
\* ProposalNotFound, whoever casts it
C17_UnknownIdAlwaysNotFound ==
    \A sender \in Callers, id \in AnyIds, support \in BOOLEAN :
        id >= proposalCount =>
            voteBody(World, sender, id, support).err = "ProposalNotFound"

\* every identity that enters a has-voted set is a member when it does
VotersAreMembers ==
    \A i \in DOMAIN proposals' :
        \A voter \in proposals'[i].hasVoted :
            \/ i \in DOMAIN proposals /\ voter \in proposals[i].hasVoted
            \/ isMember[voter]

\* C17: a vote succeeds only if the caller is a member when it is cast; a
\* caller who is not (never added, or removed) fails with NotMember whatever
\* the id, a member voting on an id >= proposalCount fails with
\* ProposalNotFound, and neither call changes anything; so every identity in
\* a has-voted set was a member when it voted.
C17_OnlyMembersVote ==
    /\ [](\A sender \in Callers, id \in AnyIds, support \in BOOLEAN :
             LET r == voteBody(World, sender, id, support)
             IN /\ r.err = "None" => isMember[sender]
                /\ ~isMember[sender] =>
                      (r.err = "NotMember" /\ After(r) = World)
                /\ (isMember[sender] /\ id >= proposalCount) =>
                      (r.err = "ProposalNotFound" /\ After(r) = World))
    /\ [][VotersAreMembers]_vars

\* a vote was refused with NotMember while an identity that voted earlier
\* is no longer a member
C17_Witness ==
    /\ receipt.op = "vote"
    /\ receipt.err = "NotMember"
    /\ \E id \in ProposalIds :
          \E voter \in proposals[id + 1].hasVoted : ~isMember[voter]

\* --------------------------------------------------------------- C18
\* what the administrative functions write
Administered == <<isMember, members, memberCount, aiOracle>>

\* C18: addMember, removeMember and setAIOracle take effect only when the
\* owner calls them: a call by any other identity, member or not, fails and
\* leaves the member set, memberCount and the registered oracle (and all the
\* rest) as they were, and a call that changes one of them is the owner's.
C18_OwnerOnly ==
    /\ [](\A sender \in Callers, who \in Callers \cup {Null} :
             LET add == addMemberBody(World, sender, who)
                 remove == removeMemberBody(World, sender, who)
                 set == setAIOracleBody(World, sender, who)
             IN /\ (who # Null /\ add.err = "None") => sender = Owner
                /\ (who # Null /\ remove.err = "None") => sender = Owner
                /\ set.err = "None" => sender = Owner
                /\ sender # Owner =>
                      /\ who # Null =>
                            /\ add.err = "OwnableUnauthorizedAccount"
                            /\ After(add) = World
                            /\ remove.err = "OwnableUnauthorizedAccount"
                            /\ After(remove) = World
                      /\ set.err = "OwnableUnauthorizedAccount"
                      /\ After(set) = World)
    /\ [][Administered' # Administered =>
             (/\ receipt'.op \in {"addMember", "removeMember", "setAIOracle"}
              /\ receipt'.err = "None"
              /\ receipt'.logs # <<>>)]_vars

\* a member called setAIOracle and was refused
C18_Witness ==
    /\ receipt.op = "setAIOracle"
    /\ receipt.err = "OwnableUnauthorizedAccount"
    /\ isMember[Bob]
    /\ memberCount > 0

\* --------------------------------------------------------------- C19
\* C19: memberCount is the number of identities whose membership flag is
\* true.  addMember of a non-member sets the flag and adds 1, addMember of a
\* member fails with AlreadyMember; removeMember of a member clears the flag
\* and subtracts 1, removeMember of a non-member fails with NotMember;
\* memberCount never goes below 0.
C19_MemberCountIsFlagCount ==
    /\ memberCount = Cardinality(CurrentMembers)
    /\ memberCount >= 0
    /\ \A member \in Callers :
          LET add == addMemberBody(World, Owner, member)
              remove == removeMemberBody(World, Owner, member)
          IN IF isMember[member]
             THEN /\ add.err = "AlreadyMember"
                  /\ After(add) = World
                  /\ remove.err = "None"
                  /\ ~After(remove).isMember[member]
                  /\ After(remove).memberCount = memberCount - 1
                  /\ After(remove).memberCount >= 0
             ELSE /\ remove.err = "NotMember"
                  /\ After(remove) = World
                  /\ add.err = "None"
                  /\ After(add).isMember[member]
                  /\ After(add).memberCount = memberCount + 1

\* two identities were added and one of them was removed
C19_Witness ==
    /\ receipt.op = "removeMember"
    /\ receipt.err = "None"
    /\ Len(members) = 2
    /\ memberCount = 1
    /\ Cardinality(CurrentMembers) = 1

\* --------------------------------------------------------------- C20
\* the first check of createProposal that fails, "None" when all pass
CreateError(sender, recipient, amount) ==
    IF ~isMember[sender] THEN "NotMember"
    ELSE IF recipient = Null THEN "InvalidRecipient"
    ELSE IF amount = 0 THEN "InvalidAmount"
    ELSE "None"

\* proposalCount moves by one createProposal at a time
CountStepsByOne ==
    /\ proposalCount' \in {proposalCount, proposalCount + 1}
    /\ proposalCount' = proposalCount + 1 =>
          (/\ receipt'.op = "createProposal"
           /\ receipt'.err = "None"
           /\ receipt'.logs[1].proposalId = proposalCount)

\* C20: ids are allocated in sequence: a successful createProposal returns
\* the previous proposalCount, raises proposalCount by exactly 1 and stores
\* under that id a record with votesFor = votesAgainst = 0, nobody in the
\* has-voted set and executed = false, so the next one returns an id one
\* higher; a createProposal that fails (NotMember, InvalidRecipient for the
\* null recipient, InvalidAmount for amount 0) allocates nothing; in both
\* cases deposits, totalDeposits and the custody balance stay.
C20_SequentialIds ==
    /\ [](/\ Len(proposals) = proposalCount
          /\ \A id \in ProposalIds : proposals[id + 1].id = id
          /\ \A sender \in Callers, recipient \in Recipients, amount \in Amounts,
                description \in LedgerDescriptions, timestamp \in BlockTimestamps :
                LET r == createProposalBody(World, sender, recipient, amount, description,
                                            timestamp)
                    after == After(r)
                IN /\ r.err = CreateError(sender, recipient, amount)
                   /\ after.deposits = deposits
                   /\ after.totalDeposits = totalDeposits
                   /\ after.tokenBalance = tokenBalance
                   /\ r.err # "None" => after = World
                   /\ r.err = "None" =>
                         /\ r.ret = proposalCount
                         /\ after.proposalCount = proposalCount + 1
                         /\ SubSeq(after.proposals, 1, proposalCount) = proposals
                         /\ after.proposals[r.ret + 1]
                               = [id |-> r.ret, proposer |-> sender,
                                  recipient |-> recipient, amount |-> amount,
                                  description |-> description,
                                  createdAt |-> timestamp, votesFor |-> 0,
                                  votesAgainst |-> 0, hasVoted |-> {},
                                  executed |-> FALSE]
                         /\ LET next == createProposalBody(after, sender, recipient,
                                                           amount, description,
                                                           timestamp)
                            IN next.err = "None" /\ next.ret = r.ret + 1)
    /\ [][CountStepsByOne]_vars

\* the first createProposal succeeded and was given id 0
C20_Witness ==
    /\ receipt.op = "createProposal"
    /\ receipt.err = "None"
    /\ receipt.logs[1].proposalId = 0
    /\ proposalCount = 1
    /\ proposals[1].id = 0
    /\ proposals[1].hasVoted = {}

\* --------------------------------------------------------------- C21
\* where a callback ends
Ended == {"skipped", "deferred", "executed", "failed"}

\* positions of the ProposalExecuted events of proposal id sent by the bot
AIExecutions(id) ==
    {k \in EventsOf(id, "ProposalExecuted") : proposalEvents[id + 1][k].isAI}

\* a callback that has ended stays as it is, and a callback sends autoExecute
\* only from the position after an approving decision
OneCallPerCallback ==
    \A i \in DOMAIN handlers :
        /\ handlers[i].pc \in Ended => handlers'[i] = handlers[i]
        /\ handlers'[i].calls # handlers[i].calls =>
              /\ handlers[i].pc = "executeProposal"
              /\ handlers'[i].calls = handlers[i].calls + 1
              /\ handlers'[i].pc \in {"executed", "failed"}
              /\ receipt'.op = "autoExecute"
        /\ (handlers[i].pc = "onProposalCreated"
            /\ proposals[handlers[i].proposalId + 1].executed
            /\ handlers'[i] # handlers[i]) => handlers'[i].pc = "skipped"

\* C21: the bot runs one callback per ProposalCreated notification and the
\* callback sends at most one autoExecute: none when it finds the proposal
\* executed or decides to defer, and none again after an autoExecute that
\* failed (the proposal was executed by the members meanwhile, the balance
\* is short, or the wallet is no longer the oracle).  A callback that failed
\* holds up no other: the callbacks of later proposals take their steps.
C21_AtMostOneAutoExecute ==
    /\ [](/\ Len(handlers) <= proposalCount
          /\ \A i, j \in DOMAIN handlers :
                handlers[i].proposalId = handlers[j].proposalId => i = j
          /\ \A i \in DOMAIN handlers :
                /\ handlers[i].calls <= 1
                /\ handlers[i].calls = 1 <=> handlers[i].pc \in {"executed", "failed"}
                /\ Cardinality(AIExecutions(handlers[i].proposalId))
                      = IF handlers[i].pc = "executed" THEN 1 ELSE 0
                /\ handlers[i].pc = "onProposalCreated" => ENABLED Analyze(i)
                /\ handlers[i].pc = "aiDecision" => ENABLED Decide(i)
                /\ handlers[i].pc = "executeProposal" => ENABLED Execute(i, TRUE))
    /\ [][OneCallPerCallback]_vars

\* the autoExecute of the first proposal failed, and the bot has since
\* executed the second
C21_Witness ==
    /\ Len(handlers) = 2
    /\ handlers[1].pc = "failed"
    /\ handlers[1].calls = 1
    /\ handlers[2].pc = "executed"
    /\ receipt.op = "autoExecute"
    /\ receipt.err = "None"
    /\ receipt.logs[1].proposalId = handlers[2].proposalId

\* --------------------------------------------------------------- C22
\* treasuryBalance - amount < 100 MNEE, exactly
LeavesLessThanReserve(in) ==
    Less(in.treasuryBalance,
         BaseUnits(in.proposal.amount.mnee + ReserveFloor, in.proposal.amount.rest))

\* C22: whenever treasuryBalance - amount < 100 MNEE when the decision is
\* taken, aiDecision returns false (and so no autoExecute is sent).
C22_ReserveAlwaysKept ==
    (aiResult # "pending" /\ LeavesLessThanReserve(aiInput)) => aiResult = "false"

\* --------------------------------------------------------------- C23
\* the events a step appends to the log of proposal id (all of the log when
\* the step creates the proposal)
Appended(id) ==
    SubSeq(proposalEvents'[id + 1],
           (IF id < proposalCount THEN Len(proposalEvents[id + 1]) ELSE 0) + 1,
           Len(proposalEvents'[id + 1]))

\* the events of a transaction that carry a proposalId
WithProposalId(logs) ==
    SelectSeq(logs, LAMBDA ev : ev.name \in {"ProposalCreated", "Voted",
                                              "ProposalExecuted"})

\* the log of a proposal only grows, by the events of the transaction that
\* commits, and a transaction that fails emits nothing
LogGrowsByCommits ==
    /\ proposalCount' >= proposalCount
    /\ Len(proposalEvents') = proposalCount'
    /\ \A id \in ProposalIds :
          SubSeq(proposalEvents'[id + 1], 1, Len(proposalEvents[id + 1]))
             = proposalEvents[id + 1]
    /\ receipt'.err # "None" => (receipt'.logs = <<>> /\ proposalEvents' = proposalEvents)
    /\ \A id \in 0..(proposalCount' - 1) :
          Appended(id) # <<>> =>
             /\ receipt'.err = "None"
             /\ Appended(id) = WithProposalId(receipt'.logs)
             /\ \A k \in DOMAIN Appended(id) :
                   /\ Appended(id)[k].proposalId = id
                   /\ Appended(id)[k].name = "ProposalExecuted" =>
                         /\ Appended(id)[k].isAI <=> receipt'.op = "autoExecute"
                         /\ ~Appended(id)[k].isAI <=> receipt'.op = "executeProposal"

\* C23: the events are appended in the order the transactions commit and
\* only by transactions that succeed.  The history of a proposal id is one
\* ProposalCreated, first; then Voted events, at most one per identity; then
\* at most one ProposalExecuted, after which there is no Voted.
\* ProposalExecuted carries isAI = true iff autoExecute emitted it and
\* isAI = false iff executeProposal did.
C23_ProposalHistory ==
    /\ [](\A id \in ProposalIds :
             LET log == proposalEvents[id + 1]
             IN /\ Len(log) >= 1
                /\ EventsOf(id, "ProposalCreated") = {1}
                /\ \A k \in DOMAIN log : log[k].proposalId = id
                /\ \A k, l \in EventsOf(id, "Voted") :
                      log[k].voter = log[l].voter => k = l
                /\ Cardinality(EventsOf(id, "ProposalExecuted")) <= 1
                /\ EventsOf(id, "ProposalExecuted") \subseteq {Len(log)}
                /\ (EventsOf(id, "ProposalExecuted") # {}) <=> proposals[id + 1].executed
                /\ {log[k].voter : k \in EventsOf(id, "Voted")} = proposals[id + 1].hasVoted)
    /\ [][LogGrowsByCommits]_vars

\* a proposal was created, voted on by two identities and executed by the
\* oracle
C23_Witness ==
    \E id \in ProposalIds :
        LET log == proposalEvents[id + 1]
        IN /\ Len(log) = 4
           /\ log[1].name = "ProposalCreated"
           /\ log[2].name = "Voted"
           /\ log[3].name = "Voted"
           /\ log[4].name = "ProposalExecuted"
           /\ log[4].isAI
           /\ receipt.op = "autoExecute"
           /\ receipt.err = "None"

\* --------------------------------------------------------------- C24
\* the claim as stated: a deposit of amount 0 fails with InvalidAmount,
\* whoever makes it
C24_ZeroAlwaysInvalidAmount ==
    \A sender \in Callers, tokenOk \in BOOLEAN :
        depositBody(World, sender, 0, tokenOk).err = "InvalidAmount"

\* deposits and totalDeposits move only up, and only by a deposit that
\* succeeds
OnlyDepositsRaise ==
    /\ \A a \in Callers : deposits'[a] >= deposits[a]
    /\ totalDeposits' >= totalDeposits
    /\ (deposits' # deposits \/ totalDeposits' # totalDeposits) =>
          /\ receipt'.op = "deposit"
          /\ receipt'.err = "None"
          /\ LET ev == receipt'.logs[1]
             IN /\ ev.name = "Deposited"
                /\ ev.amount > 0
                /\ isMember[ev.member]
                /\ deposits' = [deposits EXCEPT ![ev.member] = @ + ev.amount]
                /\ totalDeposits' = totalDeposits + ev.amount

\* C24: deposits[x] and totalDeposits never decrease: only a deposit that
\* succeeds changes them, both by +amount with amount > 0 and the caller a
\* member; removeMember, executeProposal and autoExecute leave them as they
\* are; a deposit by a non-member fails with NotMember whatever the amount,
\* and a deposit of amount 0 by a member fails with InvalidAmount.
C24_DepositsOnlyGrow ==
    /\ [](/\ \A sender \in Callers, amount \in Amounts, tokenOk \in BOOLEAN :
                LET r == depositBody(World, sender, amount, tokenOk)
                IN /\ ~isMember[sender] => (r.err = "NotMember" /\ After(r) = World)
                   /\ (isMember[sender] /\ amount = 0) =>
                         (r.err = "InvalidAmount" /\ After(r) = World)
                   /\ r.err = "None" =>
                         /\ isMember[sender] /\ amount > 0
                         /\ After(r).deposits = [deposits EXCEPT ![sender] = @ + amount]
                         /\ After(r).totalDeposits = totalDeposits + amount
          /\ \A sender \in Callers, who \in Callers, id \in AnyIds, tokenOk \in BOOLEAN :
                \A r \in {removeMemberBody(World, sender, who),
                          executeProposalBody(World, sender, id, tokenOk),
                          autoExecuteBody(World, sender, id, tokenOk)} :
                   /\ After(r).deposits = deposits
                   /\ After(r).totalDeposits = totalDeposits)
    /\ [][OnlyDepositsRaise]_vars

\* a proposal was executed and paid out, and what was deposited is still
\* on the books
C24_Witness ==
    /\ receipt.op = "executeProposal"
    /\ receipt.err = "None"
    /\ totalDeposits > 0
    /\ totalDeposits = transferredIn
    /\ getTreasuryBalance < totalDeposits
    /\ \E a \in Callers : deposits[a] > 0 /\ ~isMember[a]

\* --------------------------------------------------------------- C25
\* what createProposal writes once
Fixed(p) == <<p.id, p.proposer, p.recipient, p.amount, p.description, p.createdAt>>

\* no step rewrites or deletes a proposal
ProposalsAreKept ==
    /\ proposalCount' >= proposalCount
    /\ Len(proposals') = proposalCount'
    /\ \A id \in ProposalIds : Fixed(proposals'[id + 1]) = Fixed(proposals[id + 1])

\* a world as w but for what a vote on proposal id may write
ButVote(w, id, old) ==
    [w EXCEPT !.proposals[id + 1].votesFor = old.proposals[id + 1].votesFor,
              !.proposals[id + 1].votesAgainst = old.proposals[id + 1].votesAgainst,
              !.proposals[id + 1].hasVoted = old.proposals[id + 1].hasVoted,
              !.proposalEvents = old.proposalEvents]

\* a world as w but for what an execution of proposal id may write: the
\* flag, and the token balances of the treasury and of the recipient
ButExecution(w, id, old) ==
    [w EXCEPT !.proposals[id + 1].executed = old.proposals[id + 1].executed,
              !.tokenBalance[Treasury] = old.tokenBalance[Treasury],
              !.tokenBalance[old.proposals[id + 1].recipient] =
                  old.tokenBalance[old.proposals[id + 1].recipient],
              !.transferredOut = old.transferredOut,
              !.proposalEvents = old.proposalEvents]

\* the frame of vote, executeProposal and autoExecute in world w
FramesIn(w) ==
    \A id \in 0..(w.proposalCount - 1), sender \in Callers :
        /\ \A support \in BOOLEAN :
              LET r == voteBody(w, sender, id, support)
              IN r.err = "None" =>
                    [ButVote(r.w, id, w) EXCEPT !.logs = <<>>] = w
        /\ \A tokenOk \in BOOLEAN :
              \A r \in {executeProposalBody(w, sender, id, tokenOk),
                        autoExecuteBody(w, sender, id, tokenOk)} :
                 r.err = "None" =>
                    /\ [ButExecution(r.w, id, w) EXCEPT !.logs = <<>>] = w
                    /\ r.w.proposals[id + 1].executed

\* a later block
LaterTimestamps == {t + 1 : t \in BlockTimestamps}

\* C25: once a proposal is created its id, proposer, recipient, amount,
\* description and creation time never change and it is never deleted
\* (proposalCount never decreases); a vote changes only the tallies and the
\* has-voted set of the proposal voted on, and an execution only the executed
\* flag of the proposal executed and the token balances of the treasury and
\* the recipient, every other proposal staying as it is.
C25_ProposalsAreFrozen ==
    /\ [](/\ \A id \in ProposalIds :
                LET p == proposals[id + 1]
                    ev == proposalEvents[id + 1][1]
                IN <<p.id, p.proposer, p.recipient, p.amount, p.description>>
                      = <<ev.proposalId, ev.proposer, ev.recipient, ev.amount,
                          ev.description>>
          /\ FramesIn(World)
          /\ \A recipient \in EngineRecipients, description \in EngineDescriptions,
                timestamp \in LaterTimestamps :
                LET r == createProposalBody(World, Alice, recipient, MaxAmount,
                                            description, timestamp)
                IN r.err = "None" =>
                      /\ SubSeq(After(r).proposals, 1, proposalCount) = proposals
                      /\ After(r).proposals[r.ret + 1].createdAt = timestamp
                      /\ FramesIn(After(r)))
    /\ [][ProposalsAreKept]_vars

\* a proposal that was voted on and executed still holds what it was
\* created with
C25_Witness ==
    \E id \in ProposalIds :
        LET p == proposals[id + 1]
            ev == proposalEvents[id + 1][1]
        IN /\ p.executed
           /\ p.votesFor + p.votesAgainst = 2
           /\ p.recipient = ev.recipient
           /\ p.amount = ev.amount
           /\ p.amount > 0
           /\ p.description = ev.description
           /\ p.createdAt \in BlockTimestamps
           /\ receipt.op = "executeProposal"
           /\ receipt.err = "None"

\* --------------------------------------------------------------- C26
\* C26 as stated: the identities in the list getAllMembers returns are the
\* identities whose membership flag is true, none is listed twice, and the
\* length of the list is memberCount.
C26_ListIsTheMembers ==
    LET list == getAllMembers(World)
    IN /\ {list[i] : i \in DOMAIN list} = {a \in Callers : isMember[a]}
       /\ \A i, j \in DOMAIN list : list[i] = list[j] => i = j
       /\ Len(list) = memberCount

\* --------------------------------------------------------------- C27
\* the identities hasVoted answers true for
Voters(w, id) == {a \in Accounts : hasVoted(w, id, a).ret}

\* in one step a proposal gains at most one vote
OneVoteAtATime ==
    \A id \in ProposalIds :
        LET p == proposals[id + 1]
            q == proposals'[id + 1]
        IN \/ q.votesFor = p.votesFor /\ q.votesAgainst = p.votesAgainst
           \/ q.votesFor = p.votesFor + 1 /\ q.votesAgainst = p.votesAgainst
           \/ q.votesFor = p.votesFor /\ q.votesAgainst = p.votesAgainst + 1

\* C27: in every reachable state votesFor + votesAgainst of every proposal
\* is the number of identities in its has-voted set, and a successful vote
\* raises exactly one of the two tallies, the one of its side, by exactly 1
\* and adds the voter to the set.
C27_TalliesCountVoters ==
    /\ [](/\ \A id \in ProposalIds :
                /\ proposals[id + 1].votesFor + proposals[id + 1].votesAgainst
                      = Cardinality(Voters(World, id))
                /\ Voters(World, id) = proposals[id + 1].hasVoted
          /\ \A id \in AnyIds, member \in Accounts :
                hasVoted(World, id, member).err = "None" <=> id \in ProposalIds
          /\ \A sender \in Callers, id \in ProposalIds, support \in BOOLEAN :
                LET r == voteBody(World, sender, id, support)
                    p == proposals[id + 1]
                    q == After(r).proposals[id + 1]
                IN r.err = "None" =>
                      /\ q.votesFor = p.votesFor + (IF support THEN 1 ELSE 0)
                      /\ q.votesAgainst = p.votesAgainst + (IF support THEN 0 ELSE 1)
                      /\ ~hasVoted(World, id, sender).ret
                      /\ Voters(After(r), id) = Voters(World, id) \cup {sender})
    /\ [][OneVoteAtATime]_vars

\* a vote against has just joined a vote for
C27_Witness ==
    /\ receipt.op = "vote"
    /\ receipt.err = "None"
    /\ \E id \in ProposalIds :
          /\ proposals[id + 1].votesFor = 1
          /\ proposals[id + 1].votesAgainst = 1
          /\ Cardinality(Voters(World, id)) = 2
          /\ receipt.logs[1].support = FALSE

====
